---- MODULE Spec2Model ----
(***************************************************************************)
(* EnerMaps WMS: style compilation (api/app/models/wms/map.py), batched    *)
(* map rendering (get_map_image / add_layer_to_image) and the WMS protocol *)
(* handler (api/app/endpoints/wms.py).                                     *)
(*                                                                         *)
(* Three state machines share this module, one specification each:        *)
(*   SpecStyle  the style compiler applied to a legend or to a layer       *)
(*   SpecMap    one run of get_map_image over the requested layers         *)
(*   SpecWms    one HTTP request handled by WMS.get                        *)
(* SpecMap also runs get_mapnik_map_for_feature_info, in one step.         *)
(* SpecGetMap joins the last two; SpecWmsCase serves a request sent with   *)
(* upper-case parameter names a second time with lower-case names.         *)
(***************************************************************************)
EXTENDS Integers, Sequences, FiniteSets, TLC

(***************************************************************************)
(* Bounds of the model                                                     *)
(***************************************************************************)
\* longest legend handed to the style compiler
MaxLegend == 3
\* longest legend the legend cache returns to create_style_from_legend
MaxFetched == 2
\* thresholds of a legend entry range over 0..MaxThreshold
MaxThreshold == 3

\* values of the styled variable that the filters are evaluated on: one below
\* the smallest threshold up to one above the largest
Values == (0 - 1)..(MaxThreshold + 1)

\* colours (red, green, blue) and opacities a legend entry may carry
Colors == {<<255, 0, 0>>, <<32, 16, 0>>}
Opacities == {"1.0", "0.5"}

\* the variable names of a layer (None: the layer name declares no variable)
None == "None"
Variables == {"heat"}
\* None where a number, and where a style name or a style, is expected
NoNumber == 0 - 1
NoName == <<>>

\* most layers named by one request
MaxLayers == 2
\* most renderer layers as_mapnik_layers() gives for one layer
MaxRendererLayers == 2
\* most elements get_data_for_bounding_box returns for one layer
MaxFeatures == 10
\* width and height of a request range over 1..MaxDim
MaxDim == 2
\* current_app.config["WMS"]["MAX_SIZE"], scaled so that the largest request
\* of the model exceeds it
MAX_SIZE == MaxDim + 1

\* the step of the batch loop: range(0, len(layer_data) + 1, 9)
BatchSize == 9

\* the layer kinds encoded in a unique layer name (path.RASTER, ...)
RASTER == "raster"
VECTOR == "vector"
AREA == "area"
CM == "cm"
LayerTypes == {RASTER, VECTOR, AREA, CM}

\* mapnik_layer.datasource.geometry_type() of a vector layer
Geometries == {"Polygon", "Point"}

(***************************************************************************)
(* State                                                                   *)
(***************************************************************************)
VARIABLES
    \* --- style compiler ---
    styled_type,    \* the layer type parsed from the layer name, None if none
    fetched_legend, \* what the legend cache returned: [is_none, symbology]
    datasource,     \* mapnik_layer.datasource: [geometry_type, fields]
    legend,         \* legend["symbology"]: sequence of symbology entries
    variable,       \* the variable the filters refer to
    style,          \* the compiled style: <<rules, style name>>, or <<>> for none yet
    stylePc,        \* "input" before the compiler ran, then the function run
    \* --- the request ---
    layers,         \* parse_layers: the layer names, each standing for its kind
    width, height,  \* the requested canvas
    store_answers,  \* per requested layer, what the layer store answers for it:
                    \* [loaded, mapnik_layers]; <<>> where the run does not depend on it
    \* --- get_map_image ---
    mapPc,          \* position in get_map_image / add_layer_to_image
    index,          \* enumerate(layers): index of the current layer, from 0
    nImages,        \* mapnik.Image objects constructed
    image,          \* the output image: the render calls drawn on it
    success,
    result,         \* what get_map_image returned: "pending", None, "image", "raised"
    \* --- add_layer_to_image (locals of the current call) ---
    layer_data,     \* None, or the number of elements fetched
    loop_i,         \* loop variable i of the batch loop
    line_style_name,
    legend_style_created,
    legend_style,
    legend_style_name,
    legend_images_folder,
    \* --- collaborators ---
    folders,        \* temporary legend-icon folders on disk
    nLoads,         \* calls of geofile.load
    nMaps,          \* mapnik.Map objects constructed
    derived,        \* calls of create_style_from_legend: <<layer index, loop_i>>
    returns,        \* what add_layer_to_image returned, per layer
    \* --- WMS.get ---
    raw_args,       \* request.args: the query parameters as sent
    previous,       \* the request served before this one and its response, <<>> if none
    normalized_args,
    wmsPc,          \* position in WMS.get and the operation it dispatched to
    operation,      \* the operation WMS.get dispatched to, "none" if none
    mp,             \* the mapnik.Map of _get_map: the layer names appended to it
    zoom_box,       \* the box mp.zoom_to_box was called with, <<>> if it was not
    response,       \* the HTTP response: <<>> until the request is answered
    stored,         \* layer store: the layer names geofile.load finds
    queryable,      \* layer store: the stored layers that are queryable
    nQueries        \* calls of mp.query_map_point

styleVars == <<styled_type, fetched_legend, datasource, legend, variable, style, stylePc>>

requestVars == <<layers, width, height, store_answers>>

mapVars == <<mapPc, index, nImages, image, success, result, layer_data, loop_i, line_style_name,
             legend_style_created, legend_style, legend_style_name,
             legend_images_folder, folders, nLoads, nMaps, derived, returns>>

wmsVars == <<raw_args, previous, normalized_args, wmsPc, operation, mp, zoom_box, response,
             stored, queryable, nQueries>>

vars == <<styleVars, requestVars, mapVars, wmsVars>>

(***************************************************************************)
(* Legends                                                                 *)
(***************************************************************************)
\* a symbology entry; red, green, blue are integers, as create_default_legend
\* makes them, and are kept together as one colour triple
Symbols == [value : 0..MaxThreshold, color : Colors, opacity : Opacities]

SeqsUpTo(S, n) == UNION {[1..k -> S] : k \in 1..n}

\* legends with at least one entry, in any order of thresholds
Legends == SeqsUpTo(Symbols, MaxLegend)

\* the legend is sorted ascending by threshold
SortedLegend(symbology) ==
    \A i \in 1..(Len(symbology) - 1) : symbology[i].value <= symbology[i + 1].value

(***************************************************************************)
(* make_polygon_style                                                      *)
(***************************************************************************)
\* the range filter written with "<=" for its upper bound
RangeExpression_InclusiveUpper(var, min_threshold, max_threshold) ==
    [variable |-> var, lower |-> min_threshold, bounded |-> TRUE, upper |-> max_threshold + 1]

\* f"[__variable__{variable}] < {max_threshold} and [__variable__{variable}] >= {min_threshold}"
RangeExpression(var, min_threshold, max_threshold) ==
    [variable |-> var, lower |-> min_threshold, bounded |-> TRUE, upper |-> max_threshold]

\* f"[__variable__{variable}] >= {min_threshold}"
LastExpression(var, min_threshold) ==
    [variable |-> var, lower |-> min_threshold, bounded |-> FALSE, upper |-> min_threshold]

\* mapnik's evaluation of a filter expression on a feature whose variable is v
Matches(expression, v) ==
    /\ v >= expression.lower
    /\ expression.bounded => v < expression.upper

\* _add_rule of make_polygon_style: a rule filtered by expression, with a
\* polygon symbolizer of the given fill and fill opacity
PolygonRule(expression, color, opacity) ==
    [filter |-> expression, fill |-> color, fill_opacity |-> opacity]

\* the loop over legend["symbology"][1:], carrying min_threshold, color, opacity
RECURSIVE PolygonLoop(_, _, _, _, _, _)
PolygonLoop(var, rest, min_threshold, color, opacity, rules) ==
    IF rest = <<>>
    THEN Append(rules, PolygonRule(LastExpression(var, min_threshold), color, opacity))
    ELSE LET symbol == Head(rest)
             max_threshold == symbol.value
         IN PolygonLoop(var, Tail(rest), max_threshold, symbol.color, symbol.opacity,
                Append(rules,
                       PolygonRule(RangeExpression(var, min_threshold, max_threshold),
                                   color, opacity)))

\* make_polygon_style looping over the whole symbology instead of symbology[1:]
make_polygon_style_NoSlice(var, symbology) ==
    LET symbol == symbology[1]
    IN <<PolygonLoop(var, symbology, symbol.value, symbol.color, symbol.opacity, <<>>),
         "vector_polygon_style">>

make_polygon_style(var, symbology) ==
    LET symbol == symbology[1]
    IN <<PolygonLoop(var, Tail(symbology), symbol.value, symbol.color, symbol.opacity, <<>>),
         "vector_polygon_style">>

(***************************************************************************)
(* create_default_legend                                                   *)
(***************************************************************************)
\* round(x, 2) of a decimal x given as twice its hundredths: the nearest
\* hundredth, a tie going to the even one; in hundredths
Round2(twice_hundredths) ==
    LET q == twice_hundredths \div 2
    IN IF twice_hundredths % 2 = 0 THEN q
       ELSE IF q % 2 = 0 THEN q ELSE q + 1

\* sns.dark_palette(color, n_colors, input="rgb") after int(255 * c): seaborn's
\* blend from dark to the colour; the model keeps the number of the colours and
\* their order, the k-th colour written <<k, 0, 0>>
dark_palette(n_colors) == [k \in 1..n_colors |-> <<k, 0, 0>>]

\* create_default_legend starting every value domain at 0
create_default_legend_MinZero(layer_type) ==
    LET min_value == 0
        max_value == 255
        nb_of_colors == 8
        color_list == dark_palette(nb_of_colors)
    IN [k \in 1..Len(color_list) |->
          [value |-> Round2(200 * min_value
                            + (k - 1) * ((200 * (max_value - min_value)) \div nb_of_colors)),
           color |-> color_list[k],
           opacity |-> "1.0"]]

\* create_default_legend, lines 184-215; thresholds are decimals of two
\* places, counted in hundredths
create_default_legend(layer_type) ==
    LET min_value == IF layer_type \in {RASTER, CM} THEN 1 ELSE 0
        max_value == 255
        nb_of_colors == 8
        color_list == dark_palette(nb_of_colors)
    IN [k \in 1..Len(color_list) |->
          [value |-> Round2(200 * min_value
                            + (k - 1) * ((200 * (max_value - min_value)) \div nb_of_colors)),
           color |-> color_list[k],
           opacity |-> "1.0"]]

(***************************************************************************)
(* make_point_style and make_raster_style                                  *)
(***************************************************************************)
\* layer.get_legend_images(legend): one image file per symbology entry, in a
\* new folder: <<legend_images, legend_images_folder>>
get_legend_images(symbology) ==
    <<[k \in 1..Len(symbology) |-> <<"legend_image", k - 1>>], 1>>

\* _add_rule of make_point_style: a rule filtered by expression, with a point
\* symbolizer of the image file at index (from 0) of legend_images
PointRule(expression, legend_images, image_index) ==
    [filter |-> expression, file |-> legend_images[image_index + 1]]

\* the loop over enumerate(legend["symbology"][1:]), carrying min_threshold
RECURSIVE PointLoop(_, _, _, _, _, _)
PointLoop(var, rest, legend_images, image_index, min_threshold, rules) ==
    IF rest = <<>> THEN <<rules, min_threshold>>
    ELSE LET max_threshold == Head(rest).value
         IN PointLoop(var, Tail(rest), legend_images, image_index + 1, max_threshold,
                Append(rules,
                       PointRule(RangeExpression(var, min_threshold, max_threshold),
                                 legend_images, image_index)))

\* make_point_style with enumerate counting from 1
make_point_style_IndexFromOne(var, symbology, legend_images) ==
    LET out == PointLoop(var, Tail(symbology), legend_images, 1, symbology[1].value, <<>>)
    IN <<Append(out[1], PointRule(LastExpression(var, out[2]), legend_images,
                                  Len(symbology) - 1)),
         "vector_point_style">>

\* make_point_style, lines 334-367
make_point_style(var, symbology, legend_images) ==
    LET out == PointLoop(var, Tail(symbology), legend_images, 0, symbology[1].value, <<>>)
    IN <<Append(out[1], PointRule(LastExpression(var, out[2]), legend_images,
                                  Len(symbology) - 1)),
         "vector_point_style">>

\* mapnik.Color("transparent")
Transparent == <<0, 0, 0, 0>>

\* the stop value 3.4e38 that stands for "no data": above every threshold, the
\* largest integer stands for it
NoDataValue == 2147483647

\* make_raster_style, lines 238-279: one rule with a linear colorizer that has
\* a stop per symbology entry and a last, transparent stop
make_raster_style(symbology) ==
    <<<<[default_mode |-> "COLORIZER_LINEAR",
         default_color |-> Transparent,
         stops |-> Append([k \in 1..Len(symbology) |->
                              [value |-> symbology[k].value, color |-> symbology[k].color]],
                          [value |-> NoDataValue, color |-> Transparent])]>>,
      "raster_style">>

(***************************************************************************)
(* create_style_from_legend                                                *)
(***************************************************************************)
\* legend is None
NoLegend == [is_none |-> TRUE, symbology |-> <<>>]

\* no datasource is looked at
NoDatasource == [geometry_type |-> None, fields |-> <<>>]

\* what client.get_legend or geofile.get_cm_legend may return: None, a legend
\* without entries, a legend of up to MaxFetched entries
FetchedLegends ==
    {NoLegend, [is_none |-> FALSE, symbology |-> <<>>]}
      \cup {[is_none |-> FALSE, symbology |-> l] : l \in SeqsUpTo(Symbols, MaxFetched)}

\* the layers a style is made for: the type and the variable of the layer name
\* and, for a vector layer, the geometry and the fields of its datasource; a
\* field is written as its parts, <<"__variable__", name>> or <<name>>
StyledLayers ==
    {[type |-> t, variable |-> None, datasource |-> NoDatasource] : t \in {RASTER, CM, AREA}}
      \cup {[type |-> VECTOR, variable |-> v[1],
              datasource |-> [geometry_type |-> g, fields |-> v[2]]] :
              v \in {<<"heat", <<<<"name">>, <<"__variable__", "heat">>>>>>,
                     <<None, <<<<"name">>, <<"__variable__", "heat">>>>>>,
                     <<None, <<<<"name">>>>>>},
              g \in Geometries}

\* line 155 taking a legend of one entry for an empty one as well
NeedsDefault_SingleEntryToo(legend_found) ==
    legend_found.is_none \/ Len(legend_found.symbology) <= 1

\* line 155: (legend is None) or (len(legend["symbology"]) == 0)
NeedsDefault(legend_found) ==
    legend_found.is_none \/ Len(legend_found.symbology) = 0

\* the legend the cache returned used whenever it returned one
StylingLegend_AsFetched(layer_type, answer) ==
    LET legend_found == IF layer_type \in {VECTOR, RASTER, CM} THEN answer ELSE NoLegend
    IN IF legend_found.is_none
       THEN create_default_legend(layer_type)
       ELSE legend_found.symbology

\* lines 148-156: the symbology of the legend the style is made from, given the
\* answer of the legend cache; a layer that is neither vector, raster nor
\* calculation module has no legend looked up
StylingLegend(layer_type, answer) ==
    LET legend_found == IF layer_type \in {VECTOR, RASTER, CM} THEN answer ELSE NoLegend
    IN IF NeedsDefault(legend_found)
       THEN create_default_legend(layer_type)
       ELSE legend_found.symbology

\* lines 163-170: the variable of the layer name or, when it has none, of the
\* first field of the datasource that starts with "__variable__"
StyledVariable(var, fields) ==
    LET variables == SelectSeq(fields, LAMBDA x : x[1] = "__variable__")
    IN IF var = None /\ Len(variables) > 0 THEN variables[1][2] ELSE var

\* legend["symbology"][0] of make_polygon_style (line 299), make_point_style
\* (line 349) and make_raster_style (line 250) on a legend without entries: the
\* IndexError leaves create_style_from_legend
IndexErrorRaised == <<NoName, "IndexError", NoNumber>>

\* create_style_from_legend, lines 144-181:
\* <<mapnik_style, style_name, legend_images_folder>>
create_style_from_legend(layer_type, var, answer, source) ==
    LET symbology == StylingLegend(layer_type, answer)
    IN IF layer_type \in {VECTOR, RASTER, CM} /\ symbology = <<>>
       THEN IndexErrorRaised
       ELSE IF layer_type = VECTOR
       THEN IF source.geometry_type = "Polygon"
            THEN make_polygon_style(StyledVariable(var, source.fields), symbology)
                   \o <<NoNumber>>
            ELSE LET images == get_legend_images(symbology)
                 IN make_point_style(StyledVariable(var, source.fields), symbology,
                                     images[1]) \o <<images[2]>>
       ELSE IF layer_type \in {RASTER, CM}
       THEN make_raster_style(symbology) \o <<NoNumber>>
       ELSE <<NoName, NoName, NoNumber>>

(***************************************************************************)
(* The style compiler as a state machine                                   *)
(***************************************************************************)
\* the style compiler is not running
StyleIdle ==
    /\ styled_type = None
    /\ fetched_legend = NoLegend
    /\ datasource = NoDatasource
    /\ legend = <<>>
    /\ variable = None
    /\ style = <<>>
    /\ stylePc = "idle"

\* no request is being served
RequestIdle ==
    /\ layers = <<>>
    /\ width = 0
    /\ height = 0
    /\ store_answers = <<>>

\* get_map_image is not running
MapIdle ==
    /\ mapPc = "idle"
    /\ index = 0
    /\ nImages = 0
    /\ image = <<>>
    /\ success = FALSE
    /\ result = "pending"
    /\ layer_data = NoNumber
    /\ loop_i = 0
    /\ line_style_name = NoName
    /\ legend_style_created = FALSE
    /\ legend_style = None
    /\ legend_style_name = NoName
    /\ legend_images_folder = NoNumber
    /\ folders = {}
    /\ nLoads = 0
    /\ nMaps = 0
    /\ derived = <<>>
    /\ returns = <<>>

\* no HTTP request is being handled
WmsIdle ==
    /\ raw_args = <<>>
    /\ previous = <<>>
    /\ normalized_args = <<>>
    /\ wmsPc = "idle"
    /\ operation = "none"
    /\ mp = <<>>
    /\ zoom_box = <<>>
    /\ response = <<>>
    /\ stored = {}
    /\ queryable = {}
    /\ nQueries = 0

\* make_polygon_style is to run on a legend, or create_style_from_legend on a
\* layer whose legend the cache has answered for
InitStyle ==
    /\ WmsIdle
    /\ RequestIdle
    /\ MapIdle
    /\ style = <<>>
    /\ \/ /\ legend \in Legends
          /\ variable \in Variables
          /\ styled_type = None
          /\ fetched_legend = NoLegend
          /\ datasource = NoDatasource
          /\ stylePc = "input"
       \/ /\ legend = <<>>
          /\ fetched_legend \in FetchedLegends
          /\ \E layer \in StyledLayers :
                /\ styled_type = layer.type
                /\ variable = layer.variable
                /\ datasource = layer.datasource
          /\ stylePc = "layer"

MakePolygonStyle ==
    /\ stylePc = "input"
    /\ style' = make_polygon_style(variable, legend)
    /\ stylePc' = "make_polygon_style"
    /\ UNCHANGED <<styled_type, fetched_legend, datasource, legend, variable, requestVars, mapVars, wmsVars>>

\* create_style_from_legend, lines 144-181: legend becomes the legend the
\* style is made from, style what the function returns
CreateStyleFromLegend ==
    /\ stylePc = "layer"
    /\ legend' = StylingLegend(styled_type, fetched_legend)
    /\ style' = create_style_from_legend(styled_type, variable, fetched_legend, datasource)
    /\ stylePc' = "create_style_from_legend"
    /\ UNCHANGED <<styled_type, fetched_legend, datasource, variable, requestVars, mapVars, wmsVars>>

NextStyle == MakePolygonStyle \/ CreateStyleFromLegend

SpecStyle == InitStyle /\ [][NextStyle]_vars

(***************************************************************************)
(* Properties of the polygon style                                         *)
(***************************************************************************)
PolygonDone == stylePc = "make_polygon_style"

\* the rules of the compiled style whose filter a value satisfies
MatchingRules(v) == {i \in 1..Len(style[1]) : Matches(style[1][i].filter, v)}

\* C1 (as stated): for a legend of N >= 2 entries sorted ascending,
\* make_polygon_style gives exactly N rules and every value of the variable,
\* values below the first threshold included, satisfies exactly one of them.
C1_PartitionAllValues ==
    (PolygonDone /\ Len(legend) >= 2 /\ SortedLegend(legend)) =>
        /\ Len(style[1]) = Len(legend)
        /\ \A v \in Values : Cardinality(MatchingRules(v)) = 1

\* C1 (amended): for a legend of N >= 2 entries sorted ascending,
\* make_polygon_style gives exactly N rules; every value at or above the first
\* threshold satisfies exactly one of them and every value below the first
\* threshold satisfies none.
C1_PartitionFromFirstThreshold ==
    (PolygonDone /\ Len(legend) >= 2 /\ SortedLegend(legend)) =>
        /\ Len(style[1]) = Len(legend)
        /\ \A v \in Values :
              Cardinality(MatchingRules(v)) = IF v >= legend[1].value THEN 1 ELSE 0

\* a sorted three-entry legend with distinct thresholds has been compiled, and
\* both a value below its first threshold and one above its last exist
C1_Witness ==
    /\ PolygonDone
    /\ Len(legend) = 3
    /\ legend[1].value = 1 /\ legend[2].value = 2 /\ legend[3].value = 3
    /\ MatchingRules(0) = {}
    /\ MatchingRules(1) = {1} /\ MatchingRules(2) = {2} /\ MatchingRules(4) = {3}

\* C2: for a legend of N >= 1 entries make_polygon_style emits N rules in
\* legend order; rule i < N matches exactly threshold[i] <= value <
\* threshold[i+1], the last rule matches exactly value >= threshold[N], and
\* rule i carries the colour and opacity of entry i.
C2_RulesFollowLegend ==
    PolygonDone =>
        /\ Len(style[1]) = Len(legend)
        /\ \A i \in 1..Len(legend) :
              /\ style[1][i].fill = legend[i].color
              /\ style[1][i].fill_opacity = legend[i].opacity
              /\ style[1][i].filter.variable = variable
              /\ \A v \in Values :
                    Matches(style[1][i].filter, v) <=>
                        /\ legend[i].value <= v
                        /\ i < Len(legend) => v < legend[i + 1].value

\* a two-entry legend with different colours and opacities has been compiled
C2_Witness ==
    /\ PolygonDone
    /\ Len(legend) = 2
    /\ legend[1].value < legend[2].value
    /\ legend[1].color # legend[2].color
    /\ legend[1].opacity # legend[2].opacity
    /\ Len(style[1]) = 2

(***************************************************************************)
(* get_map_image and add_layer_to_image                                    *)
(***************************************************************************)
Min(a, b) == IF a < b THEN a ELSE b
Max(a, b) == IF a > b THEN a ELSE b

\* parse_size comparing the width alone with the budget
SizeExceeded_WidthOnly(w, h) == w > MAX_SIZE

\* parse_size: the canvas exceeds the configured pixel budget
SizeExceeded(w, h) == (h * w) > MAX_SIZE

\* path.get_type(layer_name) of the current layer
LayerType == layers[index + 1]

\* the slice layer_data[i : i + 10], one element longer than the step
SliceLen_Ten(data_len, from) == Min(BatchSize + 1, Max(0, data_len - from))

\* len(layer_data[i : i + 9])
SliceLen(data_len, from) == Min(BatchSize, Max(0, data_len - from))

\* layer.as_mapnik_layers(data=...): how many renderer layers a slice of
\* count elements may give. A raster or calculation-module layer gives one
\* per element; a vector or area layer gives one for the whole slice, and for
\* an empty slice either none or one without features.
AsMapnikLayers(type, count) ==
    IF type \in {RASTER, CM} THEN {count}
    ELSE IF count > 0 THEN {1} ELSE {0, 1}

\* a style name left without the layer-index suffix
Suffixed_NoIndex(name, idx) == <<name>>

\* a style name with the layer-index suffix: name + f"_{index}"
Suffixed(name, idx) == <<name, idx>>

\* the canvases get_map_image is run on: the largest within the budget and
\* the largest of the model, which exceeds it
MapSizes == {<<1, MAX_SIZE>>, <<MaxDim, MaxDim>>}

\* what the layer store answers for one layer: geofile.load gives None, or a
\* layer whose as_mapnik_layers() gives None, an empty list or some layers
StoreAnswers ==
    {[loaded |-> FALSE, mapnik_layers |-> NoNumber]}
      \cup {[loaded |-> TRUE, mapnik_layers |-> n] : n \in {NoNumber} \cup 0..MaxRendererLayers}

\* get_map_image is to run, or get_mapnik_map_for_feature_info on a layer store
\* whose answers are set
InitMap ==
    /\ StyleIdle
    /\ WmsIdle
    /\ layers \in SeqsUpTo(LayerTypes, MaxLayers)
    /\ \E size \in MapSizes : width = size[1] /\ height = size[2]
    /\ \/ mapPc = "start" /\ store_answers = <<>>
       \/ mapPc = "feature_info" /\ store_answers \in [1..Len(layers) -> StoreAnswers]
    /\ index = 0
    /\ nImages = 0
    /\ image = <<>>
    /\ success = FALSE
    /\ result = "pending"
    /\ layer_data = NoNumber
    /\ loop_i = 0
    /\ line_style_name = NoName
    /\ legend_style_created = FALSE
    /\ legend_style = None
    /\ legend_style_name = NoName
    /\ legend_images_folder = NoNumber
    /\ folders = {}
    /\ nLoads = 0
    /\ nMaps = 0
    /\ derived = <<>>
    /\ returns = <<>>

\* the locals of add_layer_to_image are gone once the call is over
LocalsDropped ==
    /\ layer_data' = NoNumber
    /\ loop_i' = 0
    /\ line_style_name' = NoName
    /\ legend_style_created' = FALSE
    /\ legend_style' = None
    /\ legend_style_name' = NoName
    /\ legend_images_folder' = NoNumber

\* get_map_image, lines 14-22: parse the request and create the output image
GetMapImageStart ==
    /\ mapPc = "start"
    /\ IF SizeExceeded(width, height)
       THEN /\ mapPc' = "raised"
            /\ result' = "raised"
            /\ UNCHANGED <<nImages, image, success, index>>
       ELSE /\ nImages' = nImages + 1
            /\ image' = <<>>
            /\ success' = FALSE
            /\ index' = 0
            /\ mapPc' = "add_layer"
            /\ UNCHANGED result
    /\ UNCHANGED <<styleVars, wmsVars, requestVars, layer_data, loop_i, line_style_name,
                   legend_style_created, legend_style, legend_style_name,
                   legend_images_folder, folders, nLoads, nMaps, derived, returns>>

\* get_map_image keeping only the last layer's outcome: success = add_layer_to_image(...)
ReturnFromLayer_LastWins(value, why) ==
    /\ success' = value
    /\ returns' = Append(returns, [value |-> value, why |-> why])
    /\ IF index + 1 < Len(layers)
       THEN index' = index + 1 /\ mapPc' = "add_layer"
       ELSE index' = index /\ mapPc' = "return"
    /\ UNCHANGED result

\* get_map_image, lines 23-25: add_layer_to_image returned value
ReturnFromLayer(value, why) ==
    /\ success' = (success \/ value)
    /\ returns' = Append(returns, [value |-> value, why |-> why])
    /\ IF index + 1 < Len(layers)
       THEN index' = index + 1 /\ mapPc' = "add_layer"
       ELSE index' = index /\ mapPc' = "return"
    /\ UNCHANGED result

\* a layer that geofile.load does not find raising instead of being skipped
AddLayerNotLoaded_Raises ==
    /\ mapPc = "add_layer"
    /\ nLoads' = nLoads + 1
    /\ mapPc' = "raised"
    /\ result' = "raised"
    /\ UNCHANGED <<styleVars, wmsVars, requestVars, index, nImages, image, success, layer_data,
                   loop_i, line_style_name, legend_style_created, legend_style,
                   legend_style_name, legend_images_folder, folders, nMaps, derived, returns>>

\* add_layer_to_image, lines 35-37: geofile.load gives None
AddLayerNotLoaded ==
    /\ mapPc = "add_layer"
    /\ nLoads' = nLoads + 1
    /\ ReturnFromLayer(FALSE, "not_loaded")
    /\ UNCHANGED <<styleVars, wmsVars, requestVars, nImages, image, layer_data, loop_i, line_style_name,
                   legend_style_created, legend_style, legend_style_name,
                   legend_images_folder, folders, nMaps, derived>>

\* add_layer_to_image, lines 35-40: the storage directory does not exist
AddLayerNoStorage ==
    /\ mapPc = "add_layer"
    /\ nLoads' = nLoads + 1
    /\ ReturnFromLayer(FALSE, "no_storage")
    /\ UNCHANGED <<styleVars, wmsVars, requestVars, nImages, image, layer_data, loop_i, line_style_name,
                   legend_style_created, legend_style, legend_style_name,
                   legend_images_folder, folders, nMaps, derived>>

\* an empty fetch reported as a failure of the layer
AddLayerNoData_Fails ==
    /\ mapPc = "add_layer"
    /\ nLoads' = nLoads + 1
    /\ \E fetched \in {NoNumber, 0} : fetched = NoNumber \/ fetched = 0
    /\ ReturnFromLayer(FALSE, "no_data")
    /\ UNCHANGED <<styleVars, wmsVars, requestVars, nImages, image, layer_data, loop_i, line_style_name,
                   legend_style_created, legend_style, legend_style_name,
                   legend_images_folder, folders, nMaps, derived>>

\* add_layer_to_image, lines 35-44: the fetch gives None or nothing
AddLayerNoData ==
    /\ mapPc = "add_layer"
    /\ nLoads' = nLoads + 1
    /\ \E fetched \in {NoNumber, 0} : fetched = NoNumber \/ fetched = 0
    /\ ReturnFromLayer(TRUE, "no_data")
    /\ UNCHANGED <<styleVars, wmsVars, requestVars, nImages, image, layer_data, loop_i, line_style_name,
                   legend_style_created, legend_style, legend_style_name,
                   legend_images_folder, folders, nMaps, derived>>

\* add_layer_to_image drawing each layer on an image of its own
AddLayerBegin_NewImage ==
    /\ mapPc = "add_layer"
    /\ nLoads' = nLoads + 1
    /\ \E fetched \in 1..MaxFeatures : layer_data' = fetched
    /\ line_style_name' = IF LayerType \in {VECTOR, AREA}
                          THEN Suffixed("line_style", index)
                          ELSE NoName
    /\ legend_style_created' = FALSE
    /\ legend_style' = None
    /\ legend_style_name' = NoName
    /\ legend_images_folder' = NoNumber
    /\ loop_i' = 0
    /\ mapPc' = "batch"
    /\ nImages' = nImages + 1
    /\ image' = <<>>
    /\ UNCHANGED <<styleVars, wmsVars, requestVars, index, success, result,
                   folders, nMaps, derived, returns>>

\* add_layer_to_image, lines 35-66: data was fetched; the line style is made
\* for vector and area layers and the batch loop is entered
AddLayerBegin ==
    /\ mapPc = "add_layer"
    /\ nLoads' = nLoads + 1
    /\ \E fetched \in 1..MaxFeatures : layer_data' = fetched
    /\ line_style_name' = IF LayerType \in {VECTOR, AREA}
                          THEN Suffixed("line_style", index)
                          ELSE NoName
    /\ legend_style_created' = FALSE
    /\ legend_style' = None
    /\ legend_style_name' = NoName
    /\ legend_images_folder' = NoNumber
    /\ loop_i' = 0
    /\ mapPc' = "batch"
    /\ UNCHANGED <<styleVars, wmsVars, requestVars, index, nImages, image, success, result,
                   folders, nMaps, derived, returns>>

\* the legend style derived for every renderer layer: legend_style_created ignored
CreatesLegendStyle_EveryLayer(n, created, type) ==
    /\ n > 0
    /\ type \in {RASTER, VECTOR, CM}

\* lines 77-79: the legend style is derived when the first renderer layer of a
\* raster, vector or calculation-module layer is met
CreatesLegendStyle(n, created, type) ==
    /\ n > 0
    /\ ~created
    /\ type \in {RASTER, VECTOR, CM}

\* one iteration of the batch loop, lines 67-102, up to the render call.
\* rendered: mapnik.render returns; otherwise it raises.
Batch(rendered) ==
    /\ mapPc = "batch"
    /\ \E n \in AsMapnikLayers(LayerType, SliceLen(layer_data, loop_i)),
          geometry \in Geometries :
        LET creates == CreatesLegendStyle(n, legend_style_created, LayerType)
            created_name ==
                IF LayerType = VECTOR
                THEN IF geometry = "Polygon" THEN "vector_polygon_style"
                                             ELSE "vector_point_style"
                ELSE "raster_style"
            makes_icons == creates /\ LayerType = VECTOR /\ geometry = "Point"
            line_part == IF line_style_name # NoName THEN <<line_style_name>> ELSE <<>>
            \* line 72-73: the style kept from an earlier batch
            kept_part == IF legend_style # None THEN <<legend_style_name>> ELSE <<>>
            \* line 86-88: the style created in this batch
            new_part == IF creates THEN <<Suffixed(created_name, index)>> ELSE <<>>
            name_after == IF creates THEN Suffixed(created_name, index)
                                     ELSE legend_style_name
            style_after == IF creates THEN created_name ELSE legend_style
            applied == line_part \o (IF style_after # None THEN <<name_after>> ELSE <<>>)
            batch == [index |-> index,
                      from |-> loop_i,
                      count |-> SliceLen(layer_data, loop_i),
                      map_styles |-> line_part \o kept_part \o new_part,
                      map_layers |-> [k \in 1..n |-> applied]]
        IN /\ legend_style_created' = (legend_style_created \/ creates)
           /\ legend_style' = style_after
           /\ legend_style_name' = name_after
           /\ legend_images_folder' = IF makes_icons THEN index ELSE legend_images_folder
           /\ folders' = IF makes_icons THEN folders \cup {index} ELSE folders
           /\ derived' = IF creates THEN Append(derived, <<index, loop_i>>) ELSE derived
           /\ nMaps' = nMaps + 1
           /\ IF rendered
              THEN /\ image' = Append(image, batch)
                   /\ loop_i' = loop_i + BatchSize
                   /\ mapPc' = IF loop_i + BatchSize < layer_data + 1
                               THEN "batch" ELSE "cleanup"
                   /\ UNCHANGED result
              ELSE /\ mapPc' = "raised"
                   /\ result' = "raised"
                   /\ UNCHANGED <<image, loop_i>>
    /\ UNCHANGED <<styleVars, wmsVars, requestVars, index, nImages, success, layer_data,
                   line_style_name, nLoads, returns>>

\* the batch is built and rendered onto the image
RenderBatch == Batch(TRUE)

\* mapnik.render raises (line 102); the error leaves get_map_image
RenderRaises == Batch(FALSE)

\* mapnik.Map raises (line 67); the error leaves get_map_image
MapRaises ==
    /\ mapPc = "batch"
    /\ mapPc' = "raised"
    /\ result' = "raised"
    /\ UNCHANGED <<styleVars, wmsVars, requestVars, index, nImages, image, success, layer_data, loop_i,
                   line_style_name, legend_style_created, legend_style,
                   legend_style_name, legend_images_folder, folders, nLoads, nMaps,
                   derived, returns>>

\* add_layer_to_image returning True without removing the icon folder
Cleanup_KeepsFolder ==
    /\ mapPc = "cleanup"
    /\ folders' = folders
    /\ LocalsDropped
    /\ ReturnFromLayer(TRUE, "rendered")
    /\ UNCHANGED <<styleVars, wmsVars, requestVars, nImages, image, nLoads, nMaps, derived>>

\* add_layer_to_image, lines 104-108: remove the icon folder and return True
Cleanup ==
    /\ mapPc = "cleanup"
    /\ folders' = IF legend_images_folder # NoNumber
                  THEN folders \ {legend_images_folder}
                  ELSE folders
    /\ LocalsDropped
    /\ ReturnFromLayer(TRUE, "rendered")
    /\ UNCHANGED <<styleVars, wmsVars, requestVars, nImages, image, nLoads, nMaps, derived>>

\* get_map_image, lines 27-30
GetMapImageReturn ==
    /\ mapPc = "return"
    /\ result' = IF ~success THEN None ELSE "image"
    /\ mapPc' = "done"
    /\ UNCHANGED <<styleVars, wmsVars, requestVars, index, nImages, image, success, layer_data, loop_i,
                   line_style_name, legend_style_created, legend_style,
                   legend_style_name, legend_images_folder, folders, nLoads, nMaps,
                   derived, returns>>

\* the loop of get_mapnik_map_for_feature_info going on to the next layer when
\* a layer is of another kind, is not found or gives no renderer layer
RECURSIVE FeatureInfoLoop_SkipsFailing(_, _, _)
FeatureInfoLoop_SkipsFailing(k, map_layers, loads) ==
    IF k > Len(layers) THEN <<FALSE, map_layers, loads>>
    ELSE IF layers[k] \notin {VECTOR, AREA}
    THEN FeatureInfoLoop_SkipsFailing(k + 1, map_layers, loads)
    ELSE IF ~store_answers[k].loaded
    THEN FeatureInfoLoop_SkipsFailing(k + 1, map_layers, loads + 1)
    ELSE IF store_answers[k].mapnik_layers = NoNumber \/ store_answers[k].mapnik_layers = 0
    THEN FeatureInfoLoop_SkipsFailing(k + 1, map_layers, loads + 1)
    ELSE FeatureInfoLoop_SkipsFailing(
             k + 1,
             map_layers \o [j \in 1..store_answers[k].mapnik_layers |-> <<k - 1, j>>],
             loads + 1)

\* the loop of get_mapnik_map_for_feature_info, lines 120-134, from layer k on:
\* <<None is returned, the layers appended to mp, calls of geofile.load>>; the
\* j-th renderer layer of the layer of index i is written <<i, j>>
RECURSIVE FeatureInfoLoop(_, _, _)
FeatureInfoLoop(k, map_layers, loads) ==
    IF k > Len(layers) THEN <<FALSE, map_layers, loads>>
    ELSE IF layers[k] \notin {VECTOR, AREA} THEN <<TRUE, map_layers, loads>>
    ELSE IF ~store_answers[k].loaded THEN <<TRUE, map_layers, loads + 1>>
    ELSE IF store_answers[k].mapnik_layers = NoNumber \/ store_answers[k].mapnik_layers = 0
    THEN <<TRUE, map_layers, loads + 1>>
    ELSE FeatureInfoLoop(
             k + 1,
             map_layers \o [j \in 1..store_answers[k].mapnik_layers |-> <<k - 1, j>>],
             loads + 1)

\* get_mapnik_map_for_feature_info, lines 111-136: mp is the map returned
GetMapnikMapForFeatureInfo ==
    /\ mapPc = "feature_info"
    /\ IF SizeExceeded(width, height)
       THEN /\ mapPc' = "raised"
            /\ result' = "raised"
            /\ UNCHANGED <<nMaps, nLoads, mp>>
       ELSE LET out == FeatureInfoLoop(1, <<>>, 0)
            IN /\ nMaps' = nMaps + 1
               /\ nLoads' = nLoads + out[3]
               /\ result' = IF out[1] THEN None ELSE "map"
               /\ mp' = IF out[1] THEN <<>> ELSE out[2]
               /\ mapPc' = "feature_info_done"
    /\ UNCHANGED <<styleVars, requestVars, index, nImages, image, success, layer_data, loop_i,
                   line_style_name, legend_style_created, legend_style,
                   legend_style_name, legend_images_folder, folders, derived, returns,
                   raw_args, previous, normalized_args, wmsPc, operation, zoom_box,
                   response, stored, queryable, nQueries>>

NextMap ==
    \/ GetMapnikMapForFeatureInfo
    \/ GetMapImageStart
    \/ AddLayerNotLoaded
    \/ AddLayerNoStorage
    \/ AddLayerNoData
    \/ AddLayerBegin
    \/ RenderBatch
    \/ RenderRaises
    \/ MapRaises
    \/ Cleanup
    \/ GetMapImageReturn

SpecMap == InitMap /\ [][NextMap]_vars

(***************************************************************************)
(* Properties of get_map_image                                             *)
(***************************************************************************)
CeilDiv(a, b) == (a + b - 1) \div b

\* the render calls made for layer idx
LayerRenders(idx) == {k \in 1..Len(image) : image[k].index = idx}

\* the calls of create_style_from_legend made for layer idx
LayerDerivations(idx) == {k \in 1..Len(derived) : derived[k][1] = idx}

\* layer idx put something drawable on the image
Drawable(idx) == \E k \in LayerRenders(idx) : Len(image[k].map_layers) > 0

\* C3: a layer whose fetch returns F >= 1 elements is rendered in exactly
\* ceil(F/9) batches: when its batch loop is over, ceil(F/9) render calls
\* were made for it.
C3_CeilBatches ==
    mapPc = "cleanup" =>
        Cardinality(LayerRenders(index)) = CeilDiv(layer_data, BatchSize)

\* C4 (as stated): within one add_layer_to_image call the legend style is
\* derived exactly once, during the first batch, whatever the layer.
C4_DerivedExactlyOnce ==
    mapPc = "cleanup" =>
        /\ Cardinality(LayerDerivations(index)) = 1
        /\ \A k \in LayerDerivations(index) : derived[k][2] = 0

\* C4 (amended): for a raster, vector or calculation-module layer the legend
\* style is derived exactly once per add_layer_to_image call, in the first
\* batch, and every later batch registers that same style name once and
\* applies it to its renderer layers; for an area layer it is never derived
\* and no legend style is used.
C4_DerivedOncePerLegendKind ==
    /\ \A idx \in 0..(MaxLayers - 1) : Cardinality(LayerDerivations(idx)) <= 1
    /\ mapPc = "cleanup" =>
        IF LayerType \in {RASTER, VECTOR, CM}
        THEN /\ Cardinality(LayerDerivations(index)) = 1
             /\ \A k \in LayerDerivations(index) : derived[k][2] = 0
             /\ legend_style_name # NoName
             /\ \A k \in LayerRenders(index) :
                  /\ Cardinality({j \in 1..Len(image[k].map_styles) :
                                    image[k].map_styles[j] = legend_style_name}) = 1
                  /\ \A m \in 1..Len(image[k].map_layers) :
                        \E j \in 1..Len(image[k].map_layers[m]) :
                            image[k].map_layers[m][j] = legend_style_name
        ELSE /\ LayerDerivations(index) = {}
             /\ legend_style = None
             /\ legend_style_name = NoName

\* a vector layer of ten elements went through two batches, the second one
\* with a renderer layer, and its loop is over
C4_Witness ==
    /\ mapPc = "cleanup"
    /\ LayerType = VECTOR
    /\ layer_data = 10
    /\ Cardinality(LayerRenders(index)) = 2
    /\ \A k \in LayerRenders(index) : Len(image[k].map_layers) > 0
    /\ Cardinality(LayerDerivations(index)) = 1

\* C5: once get_map_image is over, by a return or by an error raised while
\* rendering, no temporary legend-icon folder of the request remains.
C5_NoFolderLeft ==
    mapPc \in {"done", "raised"} => folders = {}

KeyNames == {"service", "request", "format", "width", "height", "bbox", "layers",
             "info_format", "query_layers"}

\* a parameter name as a client may write it in upper case
UpperOf(k) ==
    CASE k = "service" -> "SERVICE"
      [] k = "request" -> "REQUEST"
      [] k = "format" -> "FORMAT"
      [] k = "width" -> "WIDTH"
      [] k = "height" -> "HEIGHT"
      [] k = "bbox" -> "BBOX"
      [] k = "layers" -> "LAYERS"
      [] k = "info_format" -> "INFO_FORMAT"
      [] k = "query_layers" -> "QUERY_LAYERS"

UpperNames == {UpperOf(k) : k \in KeyNames}

LowerOfUpper == [u \in UpperNames |-> CHOOSE k \in KeyNames : UpperOf(k) = u]

\* str.lower() of a parameter name
Lower(raw) == IF raw \in UpperNames THEN LowerOfUpper[raw] ELSE raw

\* the parameters kept under the names the client sent
Normalize_NamesAsSent(a) == a

\* {k.lower(): v for k, v in request.args.items()}
Normalize(a) ==
    [k \in {Lower(r) : r \in DOMAIN a} |-> a[CHOOSE r \in DOMAIN a : Lower(r) = k]]

\* MIME_TO_MAPNIK
MIME_TO_MAPNIK == ("image/png" :> "png") @@ ("image/jpg" :> "jpg")

\* current_app.config["WMS"]["GETMAP"]["ALLOWED_OUTPUTS"]
ALLOWED_OUTPUTS == {"image/png", "image/jpg"}

\* the layer names of the store, in the order list_layers gives them
LayerNames == <<AREA, RASTER>>

\* abort(status, message)
Abort(status, message) == [status |-> status, mimetype |-> "text/html", body |-> message]

\* an exception that no handler catches leaves the view: the server answers 500
ServerError == [status |-> 500, mimetype |-> "text/html", body |-> <<"Internal Server Error">>]

\* parse_format: <<ok, mapnik format, mime format>>; not ok when it raises
parse_format(params) ==
    IF "format" \notin DOMAIN params THEN <<FALSE, None, None>>
    ELSE IF params["format"] \notin ALLOWED_OUTPUTS THEN <<FALSE, None, None>>
    ELSE IF params["format"] \notin DOMAIN MIME_TO_MAPNIK THEN <<FALSE, None, None>>
    ELSE <<TRUE, MIME_TO_MAPNIK[params["format"]], params["format"]>>

\* parse_size: TRUE when it returns a Size, FALSE when it raises
parse_size(params) ==
    /\ "height" \in DOMAIN params
    /\ "width" \in DOMAIN params
    /\ ~SizeExceeded(params["width"], params["height"])

\* float(extrema) of parse_envelope: the number a decimal literal denotes, in
\* tenths; a string that is no literal is not in the table and float raises
FloatOf == ("1" :> 10) @@ ("2" :> 20) @@ ("3" :> 30) @@ ("4.5" :> 45) @@ ("5" :> 50)

\* mapnik.Box2d(minx, miny, maxx, maxy)
Box2d(minx, miny, maxx, maxy) == [minx |-> minx, miny |-> miny, maxx |-> maxx, maxy |-> maxy]

\* parse_envelope accepting any bbox of four extrema or more
parse_envelope_FirstFour(params) ==
    LET raw_extremas == params["bbox"]
    IN IF Len(raw_extremas) < 4 THEN <<"abort">>
       ELSE IF \E e \in 1..Len(raw_extremas) : raw_extremas[e] \notin DOMAIN FloatOf
       THEN <<"ValueError">>
       ELSE LET bbox == [e \in 1..Len(raw_extremas) |-> FloatOf[raw_extremas[e]]]
            IN <<"box", Box2d(bbox[1], bbox[2], bbox[3], bbox[4])>>

\* parse_envelope: <<"abort">> when it aborts with 400, <<"ValueError">> when
\* float raises, else <<"box", the box>>
parse_envelope(params) ==
    LET raw_extremas == params["bbox"]
    IN IF Len(raw_extremas) # 4 THEN <<"abort">>
       ELSE IF \E e \in 1..Len(raw_extremas) : raw_extremas[e] \notin DOMAIN FloatOf
       THEN <<"ValueError">>
       ELSE LET bbox == [e \in 1..Len(raw_extremas) |-> FloatOf[raw_extremas[e]]]
            IN <<"box", Box2d(bbox[1], bbox[2], bbox[3], bbox[4])>>

\* the dispatch of WMS.get treating an unknown request as GetCapabilities
Dispatch_DefaultCapabilities(request_name) ==
    IF request_name = "GetMap" THEN "GetMap"
    ELSE IF request_name = "GetFeatureInfo" THEN "GetFeatureInfo"
    ELSE "GetCapabilities"

\* WMS.get, lines 88-94: the operation a request name selects, "none" if none
Dispatch(request_name) ==
    IF request_name = "GetMap" THEN "GetMap"
    ELSE IF request_name = "GetCapabilities" THEN "GetCapabilities"
    ELSE IF request_name = "GetFeatureInfo" THEN "GetFeatureInfo"
    ELSE "none"

\* dict.get(key): None when the key is absent
Get(a, k) == IF k \in DOMAIN a THEN a[k] ELSE None

\* the requests of the model --------------------------------------------------
\* the parameters as sent, all names in upper case or all in lower case
Sent(fields, upper) ==
    [r \in {IF upper THEN UpperOf(k) ELSE k : k \in DOMAIN fields} |-> fields[Lower(r)]]

\* with or without service=WMS
WithService(fields) == {fields, ("service" :> "WMS") @@ fields}

LayerLists == SeqsUpTo({AREA, RASTER}, MaxLayers)

\* the comma-separated extrema of bbox: three, four or five of them, and four
\* of which one is no number
BBoxes ==
    {<<"1", "2", "3">>, <<"1", "2", "3", "4.5">>, <<"1", "2", "3", "4.5", "5">>,
     <<"1", "2", "3", "x">>}

Formats == {"image/png", "image/jpg", "image/gif"}

GetMapFields ==
    {("request" :> "GetMap") @@ ("format" :> f) @@ ("width" :> w) @@ ("height" :> h)
        @@ ("bbox" :> b) @@ ("layers" :> l) :
        f \in Formats, w \in 1..MaxDim, h \in 1..MaxDim, b \in BBoxes, l \in LayerLists}

GetCapabilitiesFields == {("request" :> "GetCapabilities")}

GetFeatureInfoFields ==
    UNION {
      {base, ("info_format" :> "application/json") @@ base, ("info_format" :> "text/xml") @@ base}
        \cup {("info_format" :> "application/json") @@ ("query_layers" :> q) @@ base :
                q \in LayerLists} :
      base \in {("request" :> "GetFeatureInfo") @@ ("width" :> d) @@ ("height" :> d)
                  @@ ("bbox" :> b) @@ ("layers" :> l) :
                  d \in {1, MaxDim}, b \in {<<"1", "2", "3">>, <<"1", "2", "3", "4.5">>}, l \in LayerLists}}

\* no request parameter, or one that names no operation
OtherFields ==
    {<<>>} \cup {("request" :> r) : r \in {"GetLegendGraphic", "getmap", ""}}
      \cup {("request" :> "GetTile") @@ ("format" :> "image/png") @@ ("width" :> 1)
              @@ ("height" :> 1) @@ ("bbox" :> <<"1", "2", "3", "4.5">>) @@ ("layers" :> <<AREA>>)}

Requests ==
    UNION {{Sent(g, upper) : g \in WithService(fields), upper \in BOOLEAN} :
            fields \in GetMapFields \cup GetCapabilitiesFields
                         \cup GetFeatureInfoFields \cup OtherFields}

InitWms ==
    /\ StyleIdle
    /\ RequestIdle
    /\ MapIdle
    /\ raw_args \in Requests
    /\ previous = <<>>
    /\ normalized_args = <<>>
    /\ wmsPc = "get"
    /\ operation = "none"
    /\ mp = <<>>
    /\ zoom_box = <<>>
    /\ response = <<>>
    /\ stored \in SUBSET {AREA, RASTER}
    /\ queryable \in SUBSET stored
    /\ nQueries = 0

\* the request is answered
Answer(r) ==
    /\ response' = r
    /\ wmsPc' = "done"

\* WMS.get, lines 83-100
WmsGet ==
    /\ wmsPc = "get"
    /\ LET lowered == Normalize(raw_args)
           args == IF Get(lowered, "service") # "WMS"
                   THEN ("service" :> "WMS") @@ lowered
                   ELSE lowered
           request_name == Get(args, "request")
       IN /\ normalized_args' = args
          /\ operation' = Dispatch(request_name)
          /\ IF Dispatch(request_name) = "none"
             THEN Answer(Abort(400, <<"Couldn't find the requested method ", request_name,
                                      ", request parameter needs to be set">>))
             ELSE /\ wmsPc' = Dispatch(request_name)
                  /\ UNCHANGED response
    /\ UNCHANGED <<styleVars, requestVars, mapVars, raw_args, previous, mp, zoom_box, stored, queryable, nQueries>>

\* get_map, lines 191-192: parse_format and parse_size
GetMapParse ==
    /\ wmsPc = "GetMap"
    /\ IF parse_format(normalized_args)[1] /\ parse_size(normalized_args)
       THEN wmsPc' = "_get_map" /\ UNCHANGED response
       ELSE Answer(ServerError)
    /\ UNCHANGED <<styleVars, requestVars, mapVars, raw_args, previous, normalized_args,
                   operation, mp, zoom_box, stored, queryable, nQueries>>

\* the layers of layer_names loaded before the loop of _get_map ends: all of
\* them, or those up to the first one that is not stored
RECURSIVE LoadedBeforeMissing(_)
LoadedBeforeMissing(layer_names) ==
    IF layer_names = <<>> THEN <<>>
    ELSE IF Head(layer_names) \notin stored THEN <<>>
    ELSE <<Head(layer_names)>> \o LoadedBeforeMissing(Tail(layer_names))

\* the FileNotFoundError geofile.load raises for a layer it does not find
LookupError(layer_name) ==
    [errno |-> 2, strerror |-> <<"No such file or directory">>, filename |-> layer_name]

\* the loop of _get_map going on to the next layer when a layer is not found
FirstMissing_Skipped(layer_names) == 0

\* lines 180-184: the position in layer_names of the first layer geofile.load
\* does not find, 0 when it finds them all
FirstMissing(layer_names) ==
    IF Len(LoadedBeforeMissing(layer_names)) < Len(layer_names)
    THEN Len(LoadedBeforeMissing(layer_names)) + 1
    ELSE 0

\* _get_map, lines 147-188
GetMapBuild ==
    /\ wmsPc = "_get_map"
    /\ IF ~parse_size(normalized_args)
       THEN /\ Answer(ServerError)
            /\ UNCHANGED <<mp, nMaps, nLoads>>
       ELSE LET layer_names == normalized_args["layers"]
                loaded == LoadedBeforeMissing(layer_names)
                missing == FirstMissing(layer_names)
            IN /\ nMaps' = nMaps + 1
               /\ IF missing > 0
                  THEN /\ nLoads' = nLoads + Len(loaded) + 1
                       /\ mp' = loaded
                       /\ Answer(Abort(404, LookupError(layer_names[missing]).strerror))
                  ELSE /\ nLoads' = nLoads + Len(loaded)
                       /\ mp' = loaded
                       /\ wmsPc' = IF operation = "GetMap" THEN "render" ELSE "query"
                       /\ UNCHANGED response
    /\ UNCHANGED <<styleVars, requestVars, mapPc, index, nImages, image, success, result,
                   layer_data, loop_i, line_style_name, legend_style_created,
                   legend_style, legend_style_name, legend_images_folder, folders,
                   derived, returns, raw_args, previous, normalized_args, operation,
                   zoom_box, stored, queryable, nQueries>>

\* get_map, lines 194-197
GetMapRender ==
    /\ wmsPc = "render"
    /\ IF parse_envelope(normalized_args)[1] = "abort"
       THEN /\ Answer(Abort(400, <<"bounding box need four extremas">>))
            /\ UNCHANGED <<nImages, image, zoom_box>>
       ELSE IF parse_envelope(normalized_args)[1] = "ValueError"
       THEN /\ Answer(ServerError)
            /\ UNCHANGED <<nImages, image, zoom_box>>
       ELSE /\ zoom_box' = parse_envelope(normalized_args)[2]
            /\ nImages' = nImages + 1
            /\ image' = Append(image, [map_layers |-> mp])
            /\ Answer([status |-> 200,
                       mimetype |-> parse_format(normalized_args)[3],
                       body |-> <<"image", parse_format(normalized_args)[2]>>])
    /\ UNCHANGED <<styleVars, requestVars, mapPc, index, success, result,
                   layer_data, loop_i, line_style_name, legend_style_created,
                   legend_style, legend_style_name, legend_images_folder, folders,
                   nLoads, nMaps, derived, returns, raw_args, previous, normalized_args,
                   operation, mp, stored, queryable, nQueries>>

\* the layers list_layers returns, in its order
ListedLayers == SelectSeq(LayerNames, LAMBDA n : n \in stored)

\* the Layer node advertising every layer as queryable
LayerNode_AlwaysQueryable(name, is_queryable) ==
    [Name |-> name, queryable |-> "1", Title |-> <<"This is layer ", name>>]

\* lines 121-133: the Layer node of one layer, below the root layer
LayerNode(name, is_queryable) ==
    [Name |-> name,
     queryable |-> IF is_queryable THEN "1" ELSE "0",
     Title |-> <<"This is layer ", name>>]

\* get_capabilities, lines 102-145
GetCapabilities ==
    /\ wmsPc = "GetCapabilities"
    /\ Answer([status |-> 200,
               mimetype |-> "text/xml",
               body |-> [Layer |-> [k \in 1..Len(ListedLayers) |->
                                      LayerNode(ListedLayers[k],
                                                ListedLayers[k] \in queryable)],
                         Format |-> ALLOWED_OUTPUTS]])
    /\ UNCHANGED <<styleVars, requestVars, mapVars, raw_args, previous, normalized_args,
                   operation, mp, zoom_box, stored, queryable, nQueries>>

\* get_feature_info, lines 203-204
GetFeatureInfoFormat ==
    /\ wmsPc = "GetFeatureInfo"
    /\ IF "info_format" \notin DOMAIN normalized_args
       THEN Answer(ServerError)
       ELSE IF normalized_args["info_format"] # "application/json"
            THEN Answer(Abort(400, <<"this endpoint doesn't support non json return value">>))
            ELSE wmsPc' = "_get_map" /\ UNCHANGED response
    /\ UNCHANGED <<styleVars, requestVars, mapVars, raw_args, previous, normalized_args,
                   operation, mp, zoom_box, stored, queryable, nQueries>>

\* the features mp.query_map_point finds in a layer at the requested point
FeaturesAt(layer_name) ==
    IF layer_name = AREA THEN <<"area_1", "area_2">> ELSE <<"raster_1">>

\* the features of a layer taking the place of those collected before
Collect_OnlyLast(features, featureset) == featureset

\* lines 222-223: every feature of the featureset is appended to features
Collect(features, featureset) == features \o featureset

\* the loop of get_feature_info passing over a layer that is not queryable
RECURSIVE QueryLoop_SkipNotQueryable(_, _, _, _)
QueryLoop_SkipNotQueryable(k, features, loads, queries) ==
    IF k > Len(mp) THEN <<FALSE, features, loads, queries>>
    ELSE IF mp[k] \notin queryable
    THEN QueryLoop_SkipNotQueryable(k + 1, features, loads + 1, queries)
    ELSE QueryLoop_SkipNotQueryable(k + 1, Collect(features, FeaturesAt(mp[k])),
                                    loads + 1, queries + 1)

\* the loop of get_feature_info, lines 212-224, over the layers of mp from
\* position k on: <<aborted, features collected, layers loaded, point queries>>
RECURSIVE QueryLoop(_, _, _, _)
QueryLoop(k, features, loads, queries) ==
    IF k > Len(mp) THEN <<FALSE, features, loads, queries>>
    ELSE IF mp[k] \notin queryable THEN <<TRUE, features, loads + 1, queries>>
    ELSE QueryLoop(k + 1, Collect(features, FeaturesAt(mp[k])), loads + 1, queries + 1)

\* raw_query_layers.split(","): an absent query_layers splits into [""]
QueryLayers(params) ==
    IF "query_layers" \in DOMAIN params THEN params["query_layers"] ELSE <<"">>

Range(f) == {f[x] : x \in DOMAIN f}

\* the comparison of line 209 accepting query layers that are some of the layers
LayersMatch_Subset(query_layers, map_layers) == Range(query_layers) \subseteq Range(map_layers)

\* line 209: set(query_layers) against the names of the layers of mp
LayersMatch(query_layers, map_layers) == Range(query_layers) = Range(map_layers)

\* get_feature_info, lines 206-225
GetFeatureInfoQuery ==
    /\ wmsPc = "query"
    /\ IF parse_envelope(normalized_args)[1] = "abort"
       THEN /\ Answer(Abort(400, <<"bounding box need four extremas">>))
            /\ UNCHANGED <<nLoads, nQueries, zoom_box>>
       ELSE IF parse_envelope(normalized_args)[1] = "ValueError"
       THEN /\ Answer(ServerError)
            /\ UNCHANGED <<nLoads, nQueries, zoom_box>>
       ELSE IF ~LayersMatch(QueryLayers(normalized_args), mp)
       THEN /\ zoom_box' = parse_envelope(normalized_args)[2]
            /\ Answer(Abort(400, <<"Requested layer didnt match the query_layers parameter">>))
            /\ UNCHANGED <<nLoads, nQueries>>
       ELSE LET out == QueryLoop(1, <<>>, 0, 0)
            IN /\ zoom_box' = parse_envelope(normalized_args)[2]
               /\ nLoads' = nLoads + out[3]
               /\ nQueries' = nQueries + out[4]
               /\ IF out[1]
                  THEN Answer(Abort(400, <<"Requested query layer ", mp[out[3]],
                                                " is not queryable.">>))
                  ELSE Answer([status |-> 200,
                               mimetype |-> "application/json",
                               body |-> [features |-> out[2]]])
    /\ UNCHANGED <<styleVars, requestVars, mapPc, index, nImages, image, success, result,
                   layer_data, loop_i, line_style_name, legend_style_created,
                   legend_style, legend_style_name, legend_images_folder, folders,
                   nMaps, derived, returns, raw_args, previous, normalized_args, operation,
                   mp, stored, queryable>>

NextWms ==
    \/ WmsGet
    \/ GetMapParse
    \/ GetMapBuild
    \/ GetMapRender
    \/ GetCapabilities
    \/ GetFeatureInfoFormat
    \/ GetFeatureInfoQuery

SpecWms == InitWms /\ [][NextWms]_vars

\* the parameters of a request sent with upper-case names, sent with the names
\* in lower case
LowerCaseTwin(args) == [k \in {Lower(r) : r \in DOMAIN args} |-> args[UpperOf(k)]]

\* the request arrives with every parameter name in upper case
InitWmsCase ==
    /\ InitWms
    /\ DOMAIN raw_args \subseteq UpperNames

\* the client, answered, sends the same parameters again with the names in
\* lower case, to the same layer store: a new call of WMS.get
ResendLowerCase ==
    /\ wmsPc = "done"
    /\ previous = <<>>
    /\ previous' = [raw_args |-> raw_args, operation |-> operation, response |-> response]
    /\ raw_args' = LowerCaseTwin(raw_args)
    /\ normalized_args' = <<>>
    /\ wmsPc' = "get"
    /\ operation' = "none"
    /\ mp' = <<>>
    /\ zoom_box' = <<>>
    /\ response' = <<>>
    /\ nQueries' = 0
    /\ nLoads' = 0
    /\ nMaps' = 0
    /\ nImages' = 0
    /\ image' = <<>>
    /\ UNCHANGED <<styleVars, requestVars, mapPc, index, success, result,
                   layer_data, loop_i, line_style_name, legend_style_created,
                   legend_style, legend_style_name, legend_images_folder, folders,
                   derived, returns, stored, queryable>>

NextWmsCase == NextWms \/ ResendLowerCase

SpecWmsCase == InitWmsCase /\ [][NextWmsCase]_vars

\* GetMap through either entry: the handler of endpoints/wms.py and
\* get_map_image of models/wms/map.py
InitGetMap == InitWms \/ InitMap

NextGetMap == NextWms \/ NextMap

SpecGetMap == InitGetMap /\ [][NextGetMap]_vars

(***************************************************************************)
(* Properties of the WMS protocol handler                                  *)
(***************************************************************************)
WmsDone == wmsPc = "done"

\* the request parameter as the client sent it, None if it sent none
RequestParam == Get(Normalize(raw_args), "request")

\* the request is a GetMap request for more pixels than the budget allows
OversizedGetMap ==
    /\ RequestParam = "GetMap"
    /\ Normalize(raw_args)["width"] * Normalize(raw_args)["height"] > MAX_SIZE

\* C7: a GetMap request whose width*height exceeds MAX_SIZE is answered with
\* HTTP 400.
C7_OversizedAnswered400 ==
    (WmsDone /\ OversizedGetMap) => response.status = 400

\* C8: a GetMap request whose width*height exceeds MAX_SIZE fails before any
\* rendering: at no point of such a request has a layer been loaded, a map or
\* an image been created or a render call been made, and it does not end in
\* success. The same holds of get_map_image run on an oversized canvas.
C8_OversizedFailsBeforeRendering ==
    /\ (wmsPc # "idle" /\ OversizedGetMap) =>
          /\ nLoads = 0 /\ nMaps = 0 /\ nImages = 0 /\ image = <<>> /\ mp = <<>>
          /\ wmsPc \in {"get", "GetMap", "done"}
          /\ WmsDone => response.status >= 400
    /\ (mapPc # "idle" /\ width * height > MAX_SIZE) =>
          /\ nLoads = 0 /\ nMaps = 0 /\ nImages = 0 /\ image = <<>>
          /\ mapPc \in {"start", "feature_info", "raised"}

\* an oversized GetMap request that is otherwise well-formed (allowed format,
\* four extrema, stored layers) has been refused
C8_Witness ==
    /\ WmsDone
    /\ OversizedGetMap
    /\ normalized_args["format"] \in ALLOWED_OUTPUTS
    /\ Len(normalized_args["bbox"]) = 4
    /\ Range(normalized_args["layers"]) \subseteq stored
    /\ response.status >= 400
    /\ nMaps = 0

\* C9: a GetMap request whose format is not in ALLOWED_OUTPUTS is answered
\* with HTTP 400; a format in the allow-list resolves to a renderer format tag
\* and a successful response carries that same MIME type.
C9_FormatChecked ==
    (WmsDone /\ RequestParam = "GetMap") =>
        LET format == Normalize(raw_args)["format"]
        IN /\ format \notin ALLOWED_OUTPUTS => response.status = 400
           /\ format \in ALLOWED_OUTPUTS => format \in DOMAIN MIME_TO_MAPNIK
           /\ (format \in ALLOWED_OUTPUTS /\ response.status = 200) =>
                 /\ response.mimetype = format
                 /\ response.body = <<"image", MIME_TO_MAPNIK[format]>>

\* C10: a request whose request parameter is missing or names none of GetMap,
\* GetCapabilities and GetFeatureInfo is answered with HTTP 400, the message
\* cites the value received, and none of the three operations is executed.
C10_UnknownRequestAnswered400 ==
    (wmsPc \notin {"idle", "get"}
        /\ RequestParam \notin {"GetMap", "GetCapabilities", "GetFeatureInfo"}) =>
        /\ WmsDone
        /\ response.status = 400
        /\ response.body[2] = RequestParam
        /\ operation = "none"
        /\ nLoads = 0 /\ nMaps = 0 /\ nImages = 0 /\ nQueries = 0
        /\ mp = <<>> /\ image = <<>>

\* a request naming an unknown operation, complete with the parameters of a
\* map request, has been answered
C10_Witness ==
    /\ WmsDone
    /\ RequestParam = "GetTile"
    /\ "layers" \in DOMAIN normalized_args
    /\ response.status = 400
    /\ response.body[2] = "GetTile"

\* the operation is one that builds a map from the layers parameter
MapOperation == operation \in {"GetMap", "GetFeatureInfo"}

\* the names of the layers parameter the layer store does not find
MissingLayers == {n \in Range(normalized_args["layers"]) : n \notin stored}

\* the parameter checks that come before the layers are loaded let the request
\* through: the size is within the budget, GetMap names an allowed format,
\* GetFeatureInfo asks for json
PassesChecksBeforeLoading ==
    /\ normalized_args["width"] * normalized_args["height"] <= MAX_SIZE
    /\ operation = "GetMap" => normalized_args["format"] \in ALLOWED_OUTPUTS
    /\ operation = "GetFeatureInfo" => Get(normalized_args, "info_format") = "application/json"

\* _get_map returned the map, made of every layer of the layers parameter
MapBuilt == nMaps = 1 /\ mp = normalized_args["layers"]

\* C11: a GetMap or GetFeatureInfo request naming a layer the layer store does
\* not find renders no image and makes no point query; its layer lookup, made
\* once the parameter checks that precede it have passed, is answered with
\* HTTP 404 carrying the message of the lookup error, whatever the kind of the
\* layer.
C11_MissingLayerAnswered404 ==
    (WmsDone /\ MapOperation /\ MissingLayers # {}) =>
        /\ nImages = 0 /\ image = <<>> /\ nQueries = 0
        /\ PassesChecksBeforeLoading =>
              /\ response.status = 404
              /\ \E n \in MissingLayers : response.body = LookupError(n).strerror

\* a GetMap request for a stored area layer followed by a raster layer that is
\* not stored has been answered 404 after two lookups
C11_Witness ==
    /\ WmsDone
    /\ operation = "GetMap"
    /\ normalized_args["layers"] = <<AREA, RASTER>>
    /\ stored = {AREA}
    /\ nLoads = 2
    /\ nImages = 0
    /\ response.status = 404

\* C12: GetFeatureInfo fails with HTTP 400 whenever the set of names in
\* query_layers (the empty name alone when query_layers is absent) differs from
\* the set of layers the map was built from, and no point query is made then.
C12_LayersMismatchAnswered400 ==
    (WmsDone /\ operation = "GetFeatureInfo" /\ MapBuilt
        /\ Range(QueryLayers(normalized_args)) # Range(mp)) =>
        /\ response.status = 400
        /\ nQueries = 0
        /\ Len(normalized_args["bbox"]) = 4 =>
              response.body = <<"Requested layer didnt match the query_layers parameter">>

\* a GetFeatureInfo request on two stored queryable layers that names only one
\* of them in query_layers has been refused without a point query
C12_Witness ==
    /\ WmsDone
    /\ operation = "GetFeatureInfo"
    /\ mp = <<AREA, RASTER>>
    /\ queryable = {AREA, RASTER}
    /\ "query_layers" \in DOMAIN normalized_args
    /\ normalized_args["query_layers"] = <<AREA>>
    /\ Len(normalized_args["bbox"]) = 4
    /\ response.status = 400
    /\ nQueries = 0

\* the request got as far as the loop over the layers of the map
ReachedQueryLoop ==
    /\ operation = "GetFeatureInfo"
    /\ MapBuilt
    /\ Len(normalized_args["bbox"]) = 4
    /\ Range(QueryLayers(normalized_args)) = Range(mp)

\* C13: GetFeatureInfo fails with HTTP 400 if any layer it queries is not
\* queryable, whatever the position of the layer: the response is the error
\* message naming the layer and carries no features, those collected from
\* earlier queryable layers included.
C13_NotQueryableAnswered400 ==
    (WmsDone /\ ReachedQueryLoop /\ \E k \in 1..Len(mp) : mp[k] \notin queryable) =>
        /\ response.status = 400
        /\ response.mimetype # "application/json"
        /\ \E k \in 1..Len(mp) :
              /\ mp[k] \notin queryable
              /\ response.body = <<"Requested query layer ", mp[k], " is not queryable.">>

\* the second layer is the one that is not queryable: the first layer was
\* queried and its features collected before the request was refused
C13_Witness ==
    /\ WmsDone
    /\ ReachedQueryLoop
    /\ mp = <<AREA, RASTER>>
    /\ queryable = {AREA}
    /\ nQueries = 1
    /\ response.status = 400

\* the features the point queries return for the layers, in their order
RECURSIVE FeaturesOf(_)
FeaturesOf(layer_names) ==
    IF layer_names = <<>> THEN <<>>
    ELSE FeaturesAt(Head(layer_names)) \o FeaturesOf(Tail(layer_names))

\* C14: a successful GetFeatureInfo returns one features list, the
\* concatenation, in the order the layers were declared in the request, of
\* every feature the point query returned for each layer.
C14_FeaturesConcatenated ==
    (WmsDone /\ operation = "GetFeatureInfo" /\ response.status = 200) =>
        /\ response.body.features = FeaturesOf(normalized_args["layers"])
        /\ nQueries = Len(normalized_args["layers"])

\* a raster layer declared before an area layer: the feature of the raster
\* layer comes first, the two of the area layer follow
C14_Witness ==
    /\ WmsDone
    /\ operation = "GetFeatureInfo"
    /\ normalized_args["layers"] = <<RASTER, AREA>>
    /\ response.status = 200
    /\ response.body.features = <<"raster_1", "area_1", "area_2">>

\* C15: GetFeatureInfo requires info_format to equal application/json: any
\* other value, or an absent info_format, yields HTTP 400, and no layer has
\* been loaded and no map built by then.
C15_InfoFormatRequired ==
    (WmsDone /\ operation = "GetFeatureInfo"
        /\ Get(normalized_args, "info_format") # "application/json") =>
        /\ response.status = 400
        /\ nLoads = 0 /\ nMaps = 0

\* C17: a GetCapabilities call made without a service parameter fails with
\* HTTP 400.
C17_NoServiceAnswered400 ==
    (WmsDone /\ RequestParam = "GetCapabilities"
        /\ "service" \notin DOMAIN Normalize(raw_args)) =>
        response.status = 400

C19_EnvelopeOfFourExtrema ==
    (WmsDone /\ MapOperation /\ MapBuilt) =>
        LET raw_extremas == normalized_args["bbox"]
        IN /\ Len(raw_extremas) # 4 =>
                /\ response.status = 400
                /\ response.body = <<"bounding box need four extremas">>
                /\ zoom_box = <<>>
           /\ (Len(raw_extremas) = 4 /\ Range(raw_extremas) \subseteq DOMAIN FloatOf) =>
                /\ zoom_box # <<>>
                /\ zoom_box.minx = FloatOf[raw_extremas[1]]
                /\ zoom_box.miny = FloatOf[raw_extremas[2]]
                /\ zoom_box.maxx = FloatOf[raw_extremas[3]]
                /\ zoom_box.maxy = FloatOf[raw_extremas[4]]

\* a map request with a bbox of five extrema has been refused
C19_Witness ==
    /\ WmsDone
    /\ operation = "GetMap"
    /\ MapBuilt
    /\ Len(normalized_args["bbox"]) = 5
    /\ response.status = 400
    /\ response.body = <<"bounding box need four extremas">>

\* C16: parameter names are case-insensitive: the request sent with upper-case
\* names and the same request sent with lower-case names, to the same layer
\* store, are dispatched to the same operation and get identical responses.
C16_NamesCaseInsensitive ==
    (WmsDone /\ previous # <<>>) =>
        /\ previous.operation = operation
        /\ previous.response = response

\* a GetMap request was rendered twice, once sent with upper-case names and
\* once with lower-case names
C16_Witness ==
    /\ WmsDone
    /\ previous # <<>>
    /\ "LAYERS" \in DOMAIN previous.raw_args
    /\ "layers" \in DOMAIN raw_args
    /\ operation = "GetMap"
    /\ response.status = 200
    /\ previous.response.status = 200

\* create_style_from_legend has returned
StyleFromLegendDone == stylePc = "create_style_from_legend"

\* the thresholds of a legend are strictly increasing
StrictlyIncreasing(symbology) ==
    \A i \in 1..(Len(symbology) - 1) : symbology[i].value < symbology[i + 1].value

\* C20 (as stated): for every layer whose fetched legend is empty or has a
\* single entry, the legend used for styling is the synthesized default legend,
\* with exactly 8 entries and strictly increasing thresholds.
C20_DefaultForEmptyOrSingle ==
    (StyleFromLegendDone /\ styled_type \in {VECTOR, RASTER, CM}
        /\ ~fetched_legend.is_none /\ Len(fetched_legend.symbology) <= 1) =>
        /\ legend = create_default_legend(styled_type)
        /\ Len(legend) = 8
        /\ StrictlyIncreasing(legend)

\* C20 (amended): for every layer whose fetched legend is missing or empty,
\* the legend used for styling is the synthesized default legend, with exactly
\* 8 entries and strictly increasing thresholds; a fetched legend of one entry
\* or more is used as fetched.
C20_DefaultForMissingOrEmpty ==
    (StyleFromLegendDone /\ styled_type \in {VECTOR, RASTER, CM}) =>
        /\ (fetched_legend.is_none \/ Len(fetched_legend.symbology) = 0) =>
              /\ legend = create_default_legend(styled_type)
              /\ Len(legend) = 8
              /\ StrictlyIncreasing(legend)
        /\ (~fetched_legend.is_none /\ Len(fetched_legend.symbology) >= 1) =>
              legend = fetched_legend.symbology

\* a raster layer whose fetched legend has no entry has been styled from the
\* eight stops of the default legend and the transparent one
C20_Witness ==
    /\ StyleFromLegendDone
    /\ styled_type = RASTER
    /\ ~fetched_legend.is_none
    /\ fetched_legend.symbology = <<>>
    /\ Len(legend) = 8
    /\ legend[1].value = 100
    /\ legend[2].value = 3275
    /\ Len(style[1][1].stops) = 9

\* the legend the style was made from is the default legend
DefaultLegendUsed ==
    /\ StyleFromLegendDone
    /\ \/ styled_type \notin {VECTOR, RASTER, CM}
       \/ fetched_legend.is_none
       \/ fetched_legend.symbology = <<>>

\* the value domain of the default legend starts at 1 for raster and
\* calculation-module layers and at 0 for every other kind
DomainMin == IF styled_type \in {RASTER, CM} THEN 1 ELSE 0

\* C21: create_default_legend returns exactly 8 entries whose thresholds are
\* min + n*(255-min)/8 for n = 0..7 rounded to 2 decimals, min being 1 for
\* raster and calculation-module layers and 0 for every other kind; they are
\* strictly increasing, the first equals min and the last is below 255.
\* Thresholds are in hundredths: v is x rounded when 2v is within 1 of 2x.
C21_DefaultLegendThresholds ==
    DefaultLegendUsed =>
        /\ Len(legend) = 8
        /\ \A n \in 0..7 :
              (2 * legend[n + 1].value
                 - (200 * DomainMin + 25 * n * (255 - DomainMin))) \in (0 - 1)..1
        /\ StrictlyIncreasing(legend)
        /\ legend[1].value = 100 * DomainMin
        /\ legend[8].value < 25500

\* a calculation-module layer without a legend got the default legend from
\* 1.00 up to 223.25
C21_Witness ==
    /\ DefaultLegendUsed
    /\ styled_type = CM
    /\ fetched_legend.is_none
    /\ legend[1].value = 100
    /\ legend[4].value = 9625
    /\ legend[8].value = 22325

\* C22: whatever the legend cache or the layer metadata returns (no legend, a
\* legend without entries, a legend with entries), the legend handed to
\* make_polygon_style, make_point_style or make_raster_style has at least one
\* symbology entry, so that none of them fails on its first entry.
C22_StyledLegendNotEmpty ==
    (StyleFromLegendDone /\ styled_type \in {VECTOR, RASTER, CM}) =>
        /\ Len(legend) >= 1
        /\ style # IndexErrorRaised
        /\ Len(style[1]) >= 1

\* a vector layer of points whose legend came back without entries has been
\* styled: eight rules, one per entry of the default legend
C22_Witness ==
    /\ StyleFromLegendDone
    /\ styled_type = VECTOR
    /\ datasource.geometry_type = "Point"
    /\ ~fetched_legend.is_none
    /\ fetched_legend.symbology = <<>>
    /\ Len(legend) = 8
    /\ Len(style[1]) = 8

\* create_style_from_legend has made a point style
PointStyleDone ==
    /\ StyleFromLegendDone
    /\ styled_type = VECTOR
    /\ datasource.geometry_type = "Point"

\* C23: for the same variable and legend make_point_style emits as many rules
\* as make_polygon_style, with the same filter expressions in the same order,
\* and its rule i (from 0) selects icon i of the legend images, the last rule
\* icon N-1: each legend step has its own icon.
C23_PointRulesAsPolygonRules ==
    PointStyleDone =>
        LET polygon == make_polygon_style(StyledVariable(variable, datasource.fields),
                                          legend)[1]
        IN /\ Len(style[1]) = Len(polygon)
           /\ Len(style[1]) = Len(legend)
           /\ \A k \in 1..Len(style[1]) :
                 /\ style[1][k].filter = polygon[k].filter
                 /\ style[1][k].file = <<"legend_image", k - 1>>
           /\ \A j, k \in 1..Len(style[1]) : j # k => style[1][j].file # style[1][k].file

\* a point style of two rules has been made from a fetched legend of two
\* entries with different thresholds
C23_Witness ==
    /\ PointStyleDone
    /\ Len(fetched_legend.symbology) = 2
    /\ fetched_legend.symbology[1].value < fetched_legend.symbology[2].value
    /\ Len(style[1]) = 2
    /\ style[1][1].file = <<"legend_image", 0>>
    /\ style[1][2].file = <<"legend_image", 1>>

\* get_map_image is past the creation of its output image
ImageCreated == mapPc \in {"add_layer", "batch", "cleanup", "return", "done"}

\* C24: all batches of all layers of one request are rendered onto the same
\* output image: it is created once, a step never replaces or resets it but
\* only adds a render call to those it holds, and the image returned holds
\* every render call of the request, one per batch map built.
C24_OneImageAccumulates ==
    /\ [](ImageCreated => nImages = 1)
    /\ [](mapPc = "done" => Len(image) = nMaps)
    /\ [][mapPc \notin {"idle", "start"} =>
            /\ nImages' = nImages
            /\ Len(image') >= Len(image)
            /\ SubSeq(image', 1, Len(image)) = image]_vars

\* two layers with data have been rendered, the first in two batches, and the
\* one image created holds their render calls
C24_Witness ==
    /\ mapPc = "done"
    /\ result = "image"
    /\ Len(layers) = 2
    /\ Cardinality(LayerRenders(0)) = 2
    /\ LayerRenders(1) # {}
    /\ nImages = 1
    /\ Len(image) >= 3

\* C25: a requested layer that cannot be resolved or whose storage location
\* does not exist is skipped: it raises no error, no render call is made and
\* no legend style derived for it, and every other layer of the request is
\* still processed, in declared order, whatever became of the earlier ones.
C25_UnresolvedLayerSkipped ==
    /\ \A k \in 1..Len(returns) :
          returns[k].why \in {"not_loaded", "no_storage"} =>
              /\ ~returns[k].value
              /\ LayerRenders(k - 1) = {}
              /\ LayerDerivations(k - 1) = {}
    /\ mapPc \in {"add_layer", "batch", "cleanup"} => Len(returns) = index
    /\ mapPc = "done" => Len(returns) = Len(layers)
    /\ mapPc = "raised" => (width * height > MAX_SIZE \/ layer_data >= 1)
    /\ \A j, k \in 1..Len(image) : j < k => image[j].index <= image[k].index

\* the first layer of the request was not found, the second was rendered and
\* the image is returned
C25_Witness ==
    /\ mapPc = "done"
    /\ Len(layers) = 2
    /\ returns[1].why = "not_loaded"
    /\ returns[2].why = "rendered"
    /\ LayerRenders(1) # {}
    /\ result = "image"

\* C27: add_layer_to_image cuts the fetched data into consecutive batches of at
\* most 9 elements: when the batch loop is over every fetched element was
\* handed to the renderer in exactly one batch, and the batches follow the
\* order of the data.
C27_BatchesPartitionData ==
    mapPc = "cleanup" =>
        /\ \A e \in 0..(layer_data - 1) :
              Cardinality({k \in LayerRenders(index) :
                             image[k].from <= e /\ e < image[k].from + image[k].count}) = 1
        /\ \A k \in LayerRenders(index) : image[k].count <= 9
        /\ \A j, k \in LayerRenders(index) :
              j < k => image[j].from + image[j].count <= image[k].from

\* ten elements were fetched and rendered as a batch of nine and a batch of one
C27_Witness ==
    /\ mapPc = "cleanup"
    /\ layer_data = 10
    /\ Cardinality(LayerRenders(index)) = 2
    /\ \E j, k \in LayerRenders(index) :
          /\ image[j].from = 0 /\ image[j].count = 9
          /\ image[k].from = 9 /\ image[k].count = 1

\* C28: on normal completion of get_map_image every temporary legend-icon
\* folder created during the request has been deleted, exactly once: the
\* folder of a point style exists for as long as batches of its layer are
\* rendered, is still there when the cleanup removes it, and none is left when
\* the next layer is begun or the function returns.
C28_IconFolderDeletedAfterLastRender ==
    /\ mapPc \in {"batch", "cleanup"} =>
          /\ legend_images_folder # NoNumber <=> legend_style = "vector_point_style"
          /\ legend_images_folder # NoNumber => legend_images_folder \in folders
          /\ folders \subseteq {legend_images_folder}
    /\ mapPc \in {"add_layer", "return", "done"} => folders = {}

\* a request with a layer of points, rendered with its icons, has completed and
\* no folder is left
C28_Witness ==
    /\ mapPc = "done"
    /\ folders = {}
    /\ \E k \in 1..Len(image) : \E j \in 1..Len(image[k].map_styles) :
          image[k].map_styles[j][1] = "vector_point_style"

\* C29: when the bounding-box fetch for an existing layer returns nothing,
\* add_layer_to_image reports success for the layer; in that call no map is
\* built, no render call made, no legend style derived and no icon folder
\* created, and the output image is left as it was.
C29_EmptyFetchIsSuccessfulNoOp ==
    /\ [](\A k \in 1..Len(returns) :
            returns[k].why = "no_data" =>
                /\ returns[k].value
                /\ LayerRenders(k - 1) = {}
                /\ LayerDerivations(k - 1) = {}
                /\ (k - 1) \notin folders)
    /\ [][(Len(returns') = Len(returns) + 1 /\ returns'[Len(returns')].why = "no_data") =>
            /\ nMaps' = nMaps
            /\ nImages' = nImages
            /\ image' = image
            /\ derived' = derived
            /\ folders' = folders]_vars

\* the only layer of the request had no data in the box: nothing was built or
\* rendered, and the request succeeded
C29_Witness ==
    /\ mapPc = "done"
    /\ Len(returns) = 1
    /\ returns[1].why = "no_data"
    /\ returns[1].value
    /\ nMaps = 0
    /\ image = <<>>
    /\ result = "image"

\* C30: in every batch map, as it is rendered, each style name a renderer layer
\* of the map refers to is registered on that map, every registered name
\* carries the suffix of the layer index, and no name is registered twice on
\* one map, the legend style on the batch that creates it included.
C30_StylesRegisteredOncePerMap ==
    \A k \in 1..Len(image) :
        /\ \A m \in 1..Len(image[k].map_layers) :
              \A j \in 1..Len(image[k].map_layers[m]) :
                  \E r \in 1..Len(image[k].map_styles) :
                      image[k].map_styles[r] = image[k].map_layers[m][j]
        /\ \A r \in 1..Len(image[k].map_styles) :
              /\ Len(image[k].map_styles[r]) = 2
              /\ image[k].map_styles[r][2] = image[k].index
        /\ \A q, r \in 1..Len(image[k].map_styles) :
              q # r => image[k].map_styles[q] # image[k].map_styles[r]

\* the second batch of the second layer, a vector layer, was rendered with the
\* line style and the legend style registered, both with suffix 1, and applied
C30_Witness ==
    \E k \in 1..Len(image) :
        /\ image[k].index = 1
        /\ image[k].from = 9
        /\ Len(image[k].map_styles) = 2
        /\ Len(image[k].map_layers) = 1
        /\ Len(image[k].map_layers[1]) = 2

\* get_mapnik_map_for_feature_info has returned
FeatureInfoMapReturned == mapPc = "feature_info_done"

\* the requested layer at position k is not of vector or area kind, is not
\* found by the layer store, or gives no renderer layer
FailsForFeatureInfo(k) ==
    \/ layers[k] \notin {VECTOR, AREA}
    \/ ~store_answers[k].loaded
    \/ store_answers[k].mapnik_layers < 1

\* C26: get_mapnik_map_for_feature_info returns None if any requested layer is
\* not of vector or area kind, fails to resolve or yields no renderer layer;
\* otherwise it returns a map, not rendered, that holds every renderer layer of
\* every requested layer, in declared order.
C26_FeatureInfoMapAllOrNone ==
    FeatureInfoMapReturned =>
        /\ nImages = 0 /\ image = <<>>
        /\ (\E k \in 1..Len(layers) : FailsForFeatureInfo(k)) => result = None
        /\ (\A k \in 1..Len(layers) : ~FailsForFeatureInfo(k)) =>
              /\ result = "map"
              /\ Range(mp) = UNION {{<<k - 1, j>> : j \in 1..store_answers[k].mapnik_layers} :
                                       k \in 1..Len(layers)}
              /\ \A p, q \in 1..Len(mp) :
                    p < q => \/ mp[p][1] < mp[q][1]
                             \/ mp[p][1] = mp[q][1] /\ mp[p][2] < mp[q][2]

\* an area layer with two renderer layers and a vector layer with one: the map
\* returned holds the three, in that order
C26_Witness ==
    /\ FeatureInfoMapReturned
    /\ layers = <<AREA, VECTOR>>
    /\ result = "map"
    /\ mp = <<<<0, 1>>, <<0, 2>>, <<1, 1>>>>

====
